---- MODULE Spec2Model ----
(***************************************************************************)
(* Model of chat-server/server.py: class ChatServer.                       *)
(*                                                                         *)
(* One handler thread per accepted connection (handle_client), a shared    *)
(* registry self.clients (an insertion-ordered dict username -> socket)    *)
(* and one non-reentrant lock self.lock.  Text is modelled as sequences of *)
(* one-character strings so that strip / split / upper / join are computed *)
(* the way the Python code computes them.                                  *)
(***************************************************************************)
EXTENDS Integers, Sequences, FiniteSets, TLC

\* ------------------------------------------------------------------ bounds
NumConns == 2      \* connections served at the same time (a slot is reused
                   \* by a later accept once its handler has finished)
NumCallers == 2    \* further handler threads that call broadcast() at the
                   \* same time, in the runs that follow single sendall calls
MaxStream == 4     \* bytes a client sends, in the runs that follow the bytes
                   \* of one connection through recv, decode and framing

Conns == 1..NumConns
Callers == 1..NumCallers

\* ------------------------------------------------------- protocol literals
sOK == <<"O", "K">>
sPONG == <<"P", "O", "N", "G">>
sWelcome == <<"W", "e", "l", "c", "o", "m", "e", "!", " ", "P", "l", "e", "a", "s", "e", " ", "l", "o", "g", "i", "n", " ", "w", "i", "t", "h", ":", " ", "L", "O", "G", "I", "N", " ", "<", "u", "s", "e", "r", "n", "a", "m", "e", ">">>
sErrInvalid == <<"E", "R", "R", " ", "i", "n", "v", "a", "l", "i", "d", "-", "u", "s", "e", "r", "n", "a", "m", "e">>
sErrTaken == <<"E", "R", "R", " ", "u", "s", "e", "r", "n", "a", "m", "e", "-", "t", "a", "k", "e", "n">>
sErrLogin == <<"E", "R", "R", " ", "l", "o", "g", "i", "n", "-", "r", "e", "q", "u", "i", "r", "e", "d">>
sErrUnknown == <<"E", "R", "R", " ", "u", "n", "k", "n", "o", "w", "n", "-", "c", "o", "m", "m", "a", "n", "d">>
sErrNotFound == <<"E", "R", "R", " ", "u", "s", "e", "r", "-", "n", "o", "t", "-", "f", "o", "u", "n", "d">>
sErrUsage == <<"E", "R", "R", " ", "u", "s", "a", "g", "e", ":", " ", "D", "M", " ", "<", "u", "s", "e", "r", "n", "a", "m", "e", ">", " ", "<", "m", "e", "s", "s", "a", "g", "e", ">">>
sLOGIN == <<"L", "O", "G", "I", "N">>
sMSG == <<"M", "S", "G">>
sWHO == <<"W", "H", "O">>
sPING == <<"P", "I", "N", "G">>
sDM == <<"D", "M">>
sINFO == <<"I", "N", "F", "O">>
sUSERS == <<"U", "S", "E", "R", "S">>
sDisconnected == <<"d", "i", "s", "c", "o", "n", "n", "e", "c", "t", "e", "d">>

\* Python None for the local variable username; no valid username is the
\* empty string, and `if not username` treats both alike.
None == <<>>

\* The command lines clients send (each is one framed line, "\n" removed).
Lines ==
  { <<"L", "O", "G", "I", "N", " ", "a">>,
    <<"l", "o", "g", "i", "n", " ", "b">>,
    <<"L", "O", "G", "I", "N", " ", "a", " ", "b">>,
    <<"L", "O", "G", "I", "N">>,
    <<"M", "S", "G", " ", "h", "i">>,
    <<"M", "S", "G">>,
    <<"w", "h", "o">>,
    <<"P", "I", "N", "G">>,
    <<"D", "M", " ", "a", " ", "h", "i">>,
    <<"D", "M", " ", "a">>,
    <<"D", "M", " ", " ", "h", "i">>,
    <<"q", "u", "i", "t">>,
    <<" ", "\r">> }

\* ---------------------------------------------------------- text functions
Whitespace == {" ", "\t", "\r"}

RECURSIVE LStrip(_)
LStrip(s) == IF s # <<>> /\ Head(s) \in Whitespace THEN LStrip(Tail(s)) ELSE s

RECURSIVE RStrip(_)
RStrip(s) ==
  IF s # <<>> /\ s[Len(s)] \in Whitespace
  THEN RStrip(SubSeq(s, 1, Len(s) - 1)) ELSE s

\* str.strip()
Strip(s) == RStrip(LStrip(s))

\* index of the first " " in s, 0 when there is none
FirstSpace(s) ==
  IF \E i \in 1..Len(s) : s[i] = " "
  THEN CHOOSE i \in 1..Len(s) : s[i] = " " /\ \A j \in 1..(i - 1) : s[j] # " "
  ELSE 0

\* str.split(' ', 1)
Split1(s) ==
  IF FirstSpace(s) = 0 THEN <<s>>
  ELSE <<SubSeq(s, 1, FirstSpace(s) - 1), SubSeq(s, FirstSpace(s) + 1, Len(s))>>

LowerToUpper ==
  [ch \in {"a", "d", "g", "h", "i", "l", "m", "n", "o", "p", "q", "s", "t", "u", "w"} |->
     CASE ch = "a" -> "A" [] ch = "d" -> "D" [] ch = "g" -> "G"
       [] ch = "h" -> "H" [] ch = "i" -> "I" [] ch = "l" -> "L"
       [] ch = "m" -> "M" [] ch = "n" -> "N" [] ch = "o" -> "O"
       [] ch = "p" -> "P" [] ch = "q" -> "Q" [] ch = "s" -> "S"
       [] ch = "t" -> "T" [] ch = "u" -> "U" [] ch = "w" -> "W"]

\* str.upper()
Upper(s) ==
  [i \in 1..Len(s) |->
     IF s[i] \in DOMAIN LowerToUpper THEN LowerToUpper[s[i]] ELSE s[i]]

\* command = line.strip(); parts = command.split(' ', 1)
Command(line) == Strip(line)
Cmd(line) == Upper(Split1(Command(line))[1])
Arg(line) ==
  IF Len(Split1(Command(line))) > 1 THEN Split1(Command(line))[2] ELSE <<>>

\* new_username = arg.strip(); rejected when it contains " " or is empty
NewUsername(line) == Strip(Arg(line))
\* ValidUsername without the test for an embedded space
ValidUsernameNonEmpty(n) == Len(n) >= 1
ValidUsername(n) == ~(\E i \in 1..Len(n) : n[i] = " ") /\ Len(n) >= 1

\* handle_dm: parts = args.split(' ', 1)
DmUsage(args) == Len(Split1(args)) < 2
DmTarget(args) == Split1(args)[1]
DmMessage(args) == Split1(args)[2]

\* f"MSG {username} {arg}", f"DM {sender} {message}", f"INFO {username} disconnected"
MsgLine(u, t) == sMSG \o <<" ">> \o u \o <<" ">> \o t
DmLine(u, t) == sDM \o <<" ">> \o u \o <<" ">> \o t
InfoLine(u) == sINFO \o <<" ">> \o u \o <<" ">> \o sDisconnected

\* ", ".join(names)
RECURSIVE JoinNames(_)
JoinNames(names) ==
  IF names = <<>> THEN <<>>
  ELSE IF Len(names) = 1 THEN names[1]
  ELSE names[1] \o <<",", " ">> \o JoinNames(Tail(names))

\* -------------------------------------------------------------- the registry
\* self.clients: a dict, i.e. a sequence of entries in insertion order.
RangeOf(q) == {q[i] : i \in 1..Len(q)}
Keys(reg) == [i \in 1..Len(reg) |-> reg[i].user]
KeySet(reg) == {reg[i].user : i \in 1..Len(reg)}
Socks(reg) == {reg[i].sock : i \in 1..Len(reg)}
Has(reg, u) == u \in KeySet(reg)
Get(reg, u) == (CHOOSE i \in 1..Len(reg) : reg[i].user = u)
SockOf(reg, u) == reg[Get(reg, u)].sock

\* self.clients[u] = sock
DictSet(reg, u, c) ==
  IF Has(reg, u)
  THEN [reg EXCEPT ![Get(reg, u)] = [user |-> u, sock |-> c]]
  ELSE Append(reg, [user |-> u, sock |-> c])

\* DictDel with the deletion forgotten
DictDelKeep(reg, u) == reg

\* del self.clients[u]
DictDel(reg, u) == SelectSeq(reg, LAMBDA e : e.user # u)

\* f"USERS {users}" with users = ", ".join(self.clients.keys())
UsersLine(reg) == sUSERS \o <<" ">> \o JoinNames(Keys(reg))

\* ------------------------------------------------------------------- state
VARIABLES
  pc,        \* position of each connection's handler thread:
             \*   "free"    no connection in this slot (none yet, or closed)
             \*   "loop"    in recv() of the read loop
             \*   "cs"      inside `with self.lock:` (job says of which call)
             \*   "finally" the loop has ended, teardown not yet begun
             \*   "info"    disconnect_user has removed the name and is about
             \*             to broadcast the INFO line
  username,  \* handle_client's local `username` (None until a LOGIN succeeds)
  job,       \* locals of the call that holds the lock
  peer,      \* "open", or "gone" once the client closed or the link broke
  clients,   \* self.clients
  lock,      \* self.lock: 0 when free, else the connection holding it
  ev,        \* what the latest step wrote and to whom (observation only)
  walk,      \* broadcast() followed one sendall at a time: per calling
             \* thread its position, exclude_user, loop index, dead_clients
  got,       \* per connection, the broadcasts written to it so far, in
             \* order (each named by its calling thread; observation only)
  framer     \* the read loop of one handler followed byte by byte:
             \*   stream   the bytes its client sends in all
             \*   rest     those not yet returned by recv()
             \*   at       "recv" in the loop, "closed" after recv() gave b""
             \*   data     the chunk recv() returned last
             \*   buffer   the local `buffer`
             \*   framed   the commands handed to the parser so far

mainVars == <<pc, username, job, peer, clients, lock, ev>>
walkVars == <<walk, got>>
vars == <<pc, username, job, peer, clients, lock, ev, walk, got, framer>>

NoCall == [at |-> "idle", exclude |-> <<>>, i |-> 0, dead |-> <<>>]

\* the read loop before the first recv() of a client that sends `bytes`
Reading(bytes) ==
  [stream |-> bytes, rest |-> bytes, at |-> "recv", data |-> <<>>,
   buffer |-> <<>>, framed |-> <<>>]
NoStream == Reading(<<>>)

NoJob == [op |-> "none", a |-> <<>>, b |-> <<>>]

NoWrites == [d \in Conns |-> <<>>]

NoEv ==
  [kind |-> "none", conn |-> 0, user |-> None, a |-> <<>>, b |-> <<>>,
   reply |-> <<>>, ok |-> TRUE, pre |-> <<>>, wrote |-> NoWrites,
   failed |-> {}]

\* the record of one step of connection c: the line or arguments handled
\* (a, b), the reply sent to the own client and whether that sendall
\* succeeded, the registry before the step, the lines written per
\* connection, and the connections whose sendall raised
Event(kind, c, a, b, reply, ok, wrote, failed) ==
  [kind |-> kind, conn |-> c, user |-> username[c], a |-> a, b |-> b,
   reply |-> reply, ok |-> ok, pre |-> clients, wrote |-> wrote,
   failed |-> failed]

\* socket.sendall raises only on a connection whose peer is gone; it can
\* still succeed there (the bytes are buffered and lost).
WriteOutcomes(d) == IF peer[d] = "gone" THEN {TRUE, FALSE} ELSE {TRUE}

\* a reply written to the handler's own client
OwnWrite(c, line, ok) ==
  IF ok THEN [NoWrites EXCEPT ![c] = <<line>>] ELSE NoWrites
OwnFail(c, ok) == IF ok THEN {} ELSE {c}

Init ==
  /\ pc = [c \in Conns |-> "free"]
  /\ username = [c \in Conns |-> None]
  /\ job = [c \in Conns |-> NoJob]
  /\ peer = [c \in Conns |-> "gone"]
  /\ clients = <<>>
  /\ lock = 0
  /\ ev = NoEv
  /\ walk = [k \in Callers |-> NoCall]
  /\ got = [c \in Conns |-> <<>>]
  /\ framer = NoStream

\* ----------------------------------------------------------- the environment
\* start(): accept() returns a connection and its handler thread starts;
\* the handler sends the welcome line and enters the read loop
Accept(c) ==
  /\ pc[c] = "free"
  /\ pc' = [pc EXCEPT ![c] = "loop"]
  /\ peer' = [peer EXCEPT ![c] = "open"]
  /\ ev' = [Event("welcome", c, <<>>, <<>>, sWelcome, TRUE,
                  [NoWrites EXCEPT ![c] = <<sWelcome>>], {})
              EXCEPT !.user = None]
  /\ username' = [username EXCEPT ![c] = None]
  /\ UNCHANGED <<job, clients, lock>>

\* the client closes its socket or the link breaks; lines it sent before
\* may still be unread in the server's socket
PeerGone(c) ==
  /\ pc[c] # "free"
  /\ peer[c] = "open"
  /\ peer' = [peer EXCEPT ![c] = "gone"]
  /\ ev' = NoEv
  /\ UNCHANGED <<pc, username, job, clients, lock>>

\* ------------------------------------------------------------ handle_client
\* What one framed line makes the handler do (server.py 60-102):
\*   act "ignore": nothing;  act "reply": one line to the own client;
\*   act "lock": a call that runs under self.lock (job says which).
Ignored(k) == [act |-> "ignore", kind |-> k, reply |-> <<>>, job |-> NoJob]
Replied(k, r) == [act |-> "reply", kind |-> k, reply |-> r, job |-> NoJob]
\* the reply to a verb the branch does not know (the verb is kept in job.a)
Unknown(cmd) ==
  [act |-> "reply", kind |-> "unknown", reply |-> sErrUnknown,
   job |-> [op |-> "none", a |-> cmd, b |-> <<>>]]
Locked(o, a, b) ==
  [act |-> "lock", kind |-> o, reply |-> <<>>,
   job |-> [op |-> o, a |-> a, b |-> b]]

\* BeforeLogin with PING answered before login
BeforeLoginPing(line) ==
  IF Cmd(line) = sLOGIN THEN
    IF Arg(line) = <<>> THEN Replied("login-invalid", sErrInvalid)
    ELSE IF ~ValidUsername(NewUsername(line))
         THEN Replied("login-invalid", sErrInvalid)
    ELSE Locked("login", NewUsername(line), <<>>)
  ELSE IF Cmd(line) = sPING THEN Replied("ping", sPONG)
  ELSE Replied("login-required", sErrLogin)

\* `if not username:` branch (server.py 68-87)
BeforeLogin(line) ==
  IF Cmd(line) = sLOGIN THEN
    IF Arg(line) = <<>> THEN Replied("login-invalid", sErrInvalid)
    ELSE IF ~ValidUsername(NewUsername(line))
         THEN Replied("login-invalid", sErrInvalid)
    ELSE Locked("login", NewUsername(line), <<>>)
  ELSE Replied("login-required", sErrLogin)

\* AfterLogin with LOGIN accepted again after login
AfterLoginAgain(u, line) ==
  IF Cmd(line) = sMSG THEN
    IF Arg(line) = <<>> THEN Ignored("msg-empty")
    ELSE Locked("msg", MsgLine(u, Arg(line)), u)
  ELSE IF Cmd(line) = sWHO THEN Locked("who", <<>>, <<>>)
  ELSE IF Cmd(line) = sPING THEN Replied("ping", sPONG)
  ELSE IF Cmd(line) = sDM THEN
    IF DmUsage(Arg(line)) THEN Replied("dm-usage", sErrUsage)
    ELSE Locked("dm", DmTarget(Arg(line)), DmMessage(Arg(line)))
  ELSE IF Cmd(line) = sLOGIN /\ ValidUsername(NewUsername(line))
       THEN Locked("login", NewUsername(line), <<>>)
  ELSE Unknown(Cmd(line))

\* `else:` branch, logged in as u (server.py 88-102, 115-121)
AfterLogin(u, line) ==
  IF Cmd(line) = sMSG THEN
    IF Arg(line) = <<>> THEN Ignored("msg-empty")
    ELSE Locked("msg", MsgLine(u, Arg(line)), u)
  ELSE IF Cmd(line) = sWHO THEN Locked("who", <<>>, <<>>)
  ELSE IF Cmd(line) = sPING THEN Replied("ping", sPONG)
  ELSE IF Cmd(line) = sDM THEN
    IF DmUsage(Arg(line)) THEN Replied("dm-usage", sErrUsage)
    ELSE Locked("dm", DmTarget(Arg(line)), DmMessage(Arg(line)))
  ELSE Unknown(Cmd(line))

Dispatch(u, line) ==
  IF Command(line) = <<>> THEN Ignored("blank")
  ELSE IF u = None THEN BeforeLogin(line)
  ELSE AfterLogin(u, line)

\* the names a handler can hold: None, or what some line logs in as
Usernames ==
  {None} \cup {NewUsername(l) : l \in {x \in Lines : Cmd(x) = sLOGIN}}

\* Dispatch, tabulated
Handled == [u \in Usernames, line \in Lines |-> Dispatch(u, line)]

\* what the lines of a set make a handler logged in as u do
Outcomes(u, lines) == {Handled[u, line] : line \in lines}
Parsed == [u \in Usernames |-> Outcomes(u, Lines)]

\* recv() has a line to deliver: the peer is there, or is gone but left
\* lines behind in the socket
Readable(c) == pc[c] = "loop"

\* a blank line, or MSG without text: `continue`
RecvIgnored(c, h) ==
  /\ Readable(c)
  /\ h.act = "ignore"
  /\ ev' = Event(h.kind, c, <<>>, <<>>, <<>>, TRUE, NoWrites, {})
  /\ UNCHANGED <<pc, username, job, peer, clients, lock>>

\* a line answered at once with one sendall to the own client, no lock;
\* a failing sendall raises and ends the loop (except -> finally)
RecvReplied(c, h, ok) ==
  /\ Readable(c)
  /\ h.act = "reply"
  /\ ok \in WriteOutcomes(c)
  /\ pc' = [pc EXCEPT ![c] = IF ok THEN "loop" ELSE "finally"]
  /\ ev' = Event(h.kind, c, h.job.a, <<>>, h.reply, ok,
                 OwnWrite(c, h.reply, ok), OwnFail(c, ok))
  /\ UNCHANGED <<username, job, peer, clients, lock>>

\* RecvLocked without waiting for the lock
RecvUnlocked(c, h) ==
  /\ Readable(c)
  /\ h.act = "lock"
  /\ lock' = c
  /\ pc' = [pc EXCEPT ![c] = "cs"]
  /\ job' = [job EXCEPT ![c] = h.job]
  /\ ev' = NoEv
  /\ UNCHANGED <<username, peer, clients>>

\* a line whose handling runs under the lock: the thread gets past
\* `with self.lock:` once the lock is free
RecvLocked(c, h) ==
  /\ Readable(c)
  /\ h.act = "lock"
  /\ lock = 0
  /\ lock' = c
  /\ pc' = [pc EXCEPT ![c] = "cs"]
  /\ job' = [job EXCEPT ![c] = h.job]
  /\ ev' = NoEv
  /\ UNCHANGED <<username, peer, clients>>

\* recv() returns b"" or raises: the loop ends (server.py 49-51, 104)
RecvEOF(c) ==
  /\ pc[c] = "loop"
  /\ peer[c] = "gone"
  /\ pc' = [pc EXCEPT ![c] = "finally"]
  /\ ev' = NoEv
  /\ UNCHANGED <<username, job, peer, clients, lock>>

InCS(c, op) == pc[c] = "cs" /\ lock = c /\ job[c].op = op

\* Leave with the lock kept when the sendall raised
LeaveHeld(c, ok) ==
  /\ pc' = [pc EXCEPT ![c] = IF ok THEN "loop" ELSE "finally"]
  /\ job' = [job EXCEPT ![c] = NoJob]
  /\ lock' = IF ok THEN 0 ELSE c

\* leaving a critical section of the read loop: back to recv(), or out
\* through `finally` when a sendall to the own client raised; `with`
\* releases the lock either way
Leave(c, ok) ==
  /\ pc' = [pc EXCEPT ![c] = IF ok THEN "loop" ELSE "finally"]
  /\ job' = [job EXCEPT ![c] = NoJob]
  /\ lock' = 0

\* The bodies of the `with self.lock:` blocks, given the locals j of the
\* call.

\* LoginDo with the local username assigned only after OK was sent
LoginDoLate(c, j, ok) ==
  /\ ok \in WriteOutcomes(c)
  /\ IF Has(clients, j.a)
     THEN /\ ev' = Event("login", c, j.a, <<>>, sErrTaken, ok,
                         OwnWrite(c, sErrTaken, ok), OwnFail(c, ok))
          /\ UNCHANGED <<username, clients>>
     ELSE /\ username' = IF ok THEN [username EXCEPT ![c] = j.a] ELSE username
          /\ clients' = DictSet(clients, j.a, c)
          /\ ev' = Event("login", c, j.a, <<>>, sOK, ok,
                         OwnWrite(c, sOK, ok), OwnFail(c, ok))
  /\ Leave(c, ok)
  /\ UNCHANGED peer

\* LOGIN (server.py 79-85)
LoginDo(c, j, ok) ==
  /\ ok \in WriteOutcomes(c)
  /\ IF Has(clients, j.a)
     THEN /\ ev' = Event("login", c, j.a, <<>>, sErrTaken, ok,
                         OwnWrite(c, sErrTaken, ok), OwnFail(c, ok))
          /\ UNCHANGED <<username, clients>>
     ELSE /\ username' = [username EXCEPT ![c] = j.a]
          /\ clients' = DictSet(clients, j.a, c)
          /\ ev' = Event("login", c, j.a, <<>>, sOK, ok,
                         OwnWrite(c, sOK, ok), OwnFail(c, ok))
  /\ Leave(c, ok)
  /\ UNCHANGED peer

\* WHO (server.py 94-96)
WhoDo(c, j, ok) ==
  /\ ok \in WriteOutcomes(c)
  /\ ev' = Event("who", c, <<>>, <<>>, UsersLine(clients), ok,
                 OwnWrite(c, UsersLine(clients), ok), OwnFail(c, ok))
  /\ Leave(c, ok)
  /\ UNCHANGED <<username, peer, clients>>

\* DmWrites with a copy of the line echoed to the sender
DmWritesEcho(c, t, line, ok) ==
  IF ok THEN [d \in Conns |-> IF d \in {c, t} THEN <<line>> ELSE <<>>]
  ELSE NoWrites

\* what handle_dm writes when the target is registered
DmWrites(c, t, line, ok) ==
  IF ok THEN [NoWrites EXCEPT ![t] = <<line>>] ELSE NoWrites

\* handle_dm, target registered (server.py 124-129): the sendall to the
\* target may raise, which is swallowed
DmDeliverDo(c, j, ok) ==
  /\ Has(clients, j.a)
  /\ ok \in WriteOutcomes(SockOf(clients, j.a))
  /\ ev' = Event("dm", c, j.a, j.b, <<>>, TRUE,
                 DmWrites(c, SockOf(clients, j.a),
                          DmLine(username[c], j.b), ok),
                 IF ok THEN {} ELSE {SockOf(clients, j.a)})
  /\ Leave(c, TRUE)
  /\ UNCHANGED <<username, peer, clients>>

\* DmNotFoundDo with the error reply forgotten
DmNotFoundDoSilent(c, j, ok) ==
  /\ ~Has(clients, j.a)
  /\ ok \in WriteOutcomes(c)
  /\ ev' = Event("dm", c, j.a, j.b, <<>>, TRUE, NoWrites, {})
  /\ Leave(c, TRUE)
  /\ UNCHANGED <<username, peer, clients>>

\* handle_dm, target absent (server.py 130-131)
DmNotFoundDo(c, j, ok) ==
  /\ ~Has(clients, j.a)
  /\ ok \in WriteOutcomes(c)
  /\ ev' = Event("dm", c, j.a, j.b, sErrNotFound, ok,
                 OwnWrite(c, sErrNotFound, ok), OwnFail(c, ok))
  /\ Leave(c, ok)
  /\ UNCHANGED <<username, peer, clients>>

\* the registry entries broadcast(message, exclude_user) writes to
Recipients(reg, exclude) == SelectSeq(reg, LAMBDA e : e.user # exclude)

\* the sockets among them whose sendall may raise
MayFail(reg, exclude) ==
  {d \in Socks(Recipients(reg, exclude)) : FALSE \in WriteOutcomes(d)}

\* Evict with the dead entries left in the registry
EvictKeep(reg, exclude, dead) == reg

\* for user in dead_clients: del self.clients[user]
Evict(reg, exclude, dead) ==
  SelectSeq(reg, LAMBDA e : ~(e \in RangeOf(Recipients(reg, exclude))
                               /\ e.sock \in dead))

\* what broadcast writes: message to every recipient whose sendall succeeds
Delivered(reg, exclude, dead, message) ==
  [d \in Conns |->
     IF d \in Socks(Recipients(reg, exclude)) \ dead
     THEN <<message>> ELSE <<>>]

\* broadcast(message, exclude_user) (server.py 139-151); dead is the set of
\* recipients whose sendall raised.  Called for MSG (then back to recv())
\* and by disconnect_user (then close() and the thread ends, and its local
\* username with it, server.py 109-112).
BroadcastDo(c, j, dead) ==
  /\ dead \subseteq MayFail(clients, j.b)
  /\ clients' = Evict(clients, j.b, dead)
  /\ ev' = Event(j.op, c, j.a, j.b, <<>>, TRUE,
                 Delivered(clients, j.b, dead, j.a), dead)
  /\ pc' = [pc EXCEPT ![c] = IF j.op = "msg" THEN "loop" ELSE "free"]
  /\ username' = IF j.op = "msg" THEN username
                 ELSE [username EXCEPT ![c] = None]
  /\ job' = [job EXCEPT ![c] = NoJob]
  /\ lock' = 0
  /\ UNCHANGED peer

\* DisconnectDo with the INFO broadcast forgotten: the thread closes at once
DisconnectDoSilent(c, j) ==
  /\ clients' = IF Has(clients, j.a) THEN DictDel(clients, j.a) ELSE clients
  /\ pc' = [pc EXCEPT ![c] = "free"]
  /\ username' = [username EXCEPT ![c] = None]
  /\ job' = [job EXCEPT ![c] = NoJob]
  /\ lock' = 0
  /\ ev' = Event("disc", c, j.a, <<>>, <<>>, TRUE, NoWrites, {})
  /\ UNCHANGED peer

\* disconnect_user's own block (server.py 134-136); the lock is released
\* before the INFO broadcast
DisconnectDo(c, j) ==
  /\ clients' = IF Has(clients, j.a) THEN DictDel(clients, j.a) ELSE clients
  /\ pc' = [pc EXCEPT ![c] = "info"]
  /\ job' = [job EXCEPT ![c] = NoJob]
  /\ lock' = 0
  /\ ev' = Event("disc", c, j.a, <<>>, <<>>, TRUE, NoWrites, {})
  /\ UNCHANGED <<username, peer>>

DiscJob(c) == [op |-> "disc", a |-> username[c], b |-> <<>>]
InfoJob(c) == [op |-> "info", a |-> InfoLine(username[c]), b |-> None]

\* the steps of a handler that holds the lock
LoginCS(c, ok) == InCS(c, "login") /\ LoginDo(c, job[c], ok)
WhoCS(c, ok) == InCS(c, "who") /\ WhoDo(c, job[c], ok)
DmDeliver(c, ok) == InCS(c, "dm") /\ DmDeliverDo(c, job[c], ok)
DmNotFound(c, ok) == InCS(c, "dm") /\ DmNotFoundDo(c, job[c], ok)
Broadcast(c, dead) ==
  /\ pc[c] = "cs" /\ lock = c /\ job[c].op \in {"msg", "info"}
  /\ BroadcastDo(c, job[c], dead)
DisconnectCS(c) == InCS(c, "disc") /\ DisconnectDo(c, job[c])

\* finally, never logged in: client_socket.close() (server.py 106-112)
Close(c) ==
  /\ pc[c] = "finally"
  /\ username[c] = None
  /\ pc' = [pc EXCEPT ![c] = "free"]
  /\ ev' = Event("close", c, <<>>, <<>>, <<>>, TRUE, NoWrites, {})
  /\ UNCHANGED <<username, job, peer, clients, lock>>

\* finally, logged in: disconnect_user(username) takes the lock
\* (server.py 107-108, 134)
Teardown(c) ==
  /\ pc[c] = "finally"
  /\ username[c] # None
  /\ lock = 0
  /\ lock' = c
  /\ pc' = [pc EXCEPT ![c] = "cs"]
  /\ job' = [job EXCEPT ![c] = DiscJob(c)]
  /\ ev' = NoEv
  /\ UNCHANGED <<username, peer, clients>>

\* self.broadcast(f"INFO {username} disconnected") takes the lock again
\* (server.py 137, 140)
InfoLocked(c) ==
  /\ pc[c] = "info"
  /\ lock = 0
  /\ lock' = c
  /\ pc' = [pc EXCEPT ![c] = "cs"]
  /\ job' = [job EXCEPT ![c] = InfoJob(c)]
  /\ ev' = NoEv
  /\ UNCHANGED <<username, peer, clients>>

\* --------------------------------------------------------------- the system
Next ==
  /\ UNCHANGED <<walkVars, framer>>
  /\ \E c \in Conns :
       \/ Accept(c)
       \/ PeerGone(c)
       \/ \E h \in Parsed[username[c]] : RecvIgnored(c, h)
       \/ \E h \in Parsed[username[c]], ok \in BOOLEAN : RecvReplied(c, h, ok)
       \/ \E h \in Parsed[username[c]] : RecvLocked(c, h)
       \/ RecvEOF(c)
       \/ \E ok \in BOOLEAN : LoginCS(c, ok)
       \/ \E ok \in BOOLEAN : WhoCS(c, ok)
       \/ \E ok \in BOOLEAN : DmDeliver(c, ok)
       \/ \E ok \in BOOLEAN : DmNotFound(c, ok)
       \/ \E dead \in SUBSET Conns : Broadcast(c, dead)
       \/ Close(c)
       \/ Teardown(c)
       \/ DisconnectCS(c)
       \/ InfoLocked(c)

Spec == Init /\ [][Next]_vars

\* ------------------------------------------- the system, for progress claims
\* The same handlers with every `with self.lock:` block taken as one step:
\* the thread gets the lock, runs the block and releases it.  Nothing can
\* observe the registry while the lock is held, so the blocks happen in some
\* order, one at a time, which is the order of these steps.
AtomicLogin(c, h, ok) ==
  /\ Readable(c) /\ lock = 0
  /\ h.act = "lock" /\ h.job.op = "login"
  /\ LoginDo(c, h.job, ok)

AtomicWho(c, h, ok) ==
  /\ Readable(c) /\ lock = 0
  /\ h.act = "lock" /\ h.job.op = "who"
  /\ WhoDo(c, h.job, ok)

AtomicDm(c, h, ok) ==
  /\ Readable(c) /\ lock = 0
  /\ h.act = "lock" /\ h.job.op = "dm"
  /\ \/ DmDeliverDo(c, h.job, ok)
     \/ DmNotFoundDo(c, h.job, ok)

AtomicMsg(c, h, dead) ==
  /\ Readable(c) /\ lock = 0
  /\ h.act = "lock" /\ h.job.op = "msg"
  /\ BroadcastDo(c, h.job, dead)

AtomicDisconnect(c) ==
  /\ pc[c] = "finally" /\ username[c] # None /\ lock = 0
  /\ DisconnectDo(c, DiscJob(c))

AtomicInfo(c, dead) ==
  /\ pc[c] = "info" /\ lock = 0
  /\ BroadcastDo(c, InfoJob(c), dead)

\* the lines clients send in the runs checked for progress: those that
\* read or change the registry or write to other connections, and one that
\* is skipped; before login all but LOGIN are answered directly
ProgressLines ==
  { <<"L", "O", "G", "I", "N", " ", "a">>,
    <<"l", "o", "g", "i", "n", " ", "b">>,
    <<"M", "S", "G", " ", "h", "i">>,
    <<"w", "h", "o">>,
    <<"D", "M", " ", "a", " ", "h", "i">>,
    <<"M", "S", "G">> }

\* what they make a handler logged in as u do
ProgressParsed == [u \in Usernames |-> Outcomes(u, ProgressLines)]

AtomicNext ==
  /\ UNCHANGED <<walkVars, framer>>
  /\ \E c \in Conns :
       \/ Accept(c)
       \/ PeerGone(c)
       \/ \E h \in ProgressParsed[username[c]] : RecvIgnored(c, h)
       \/ \E h \in ProgressParsed[username[c]], ok \in BOOLEAN :
            RecvReplied(c, h, ok)
       \/ \E h \in ProgressParsed[username[c]], ok \in BOOLEAN :
            AtomicLogin(c, h, ok)
       \/ \E h \in ProgressParsed[username[c]], ok \in BOOLEAN :
            AtomicWho(c, h, ok)
       \/ \E h \in ProgressParsed[username[c]], ok \in BOOLEAN :
            AtomicDm(c, h, ok)
       \/ \E h \in ProgressParsed[username[c]], dead \in SUBSET Conns :
            AtomicMsg(c, h, dead)
       \/ RecvEOF(c)
       \/ Close(c)
       \/ AtomicDisconnect(c)
       \/ \E dead \in SUBSET Conns : AtomicInfo(c, dead)

\* Handler threads are scheduled fairly and the lock is granted to every
\* thread that asks for it: a handler whose client is gone reaches the end
\* of its stream, and a handler that has left its loop tears down.
Fairness ==
  \A c \in Conns :
    /\ WF_mainVars(RecvEOF(c))
    /\ WF_mainVars(Close(c))
    /\ WF_mainVars(AtomicDisconnect(c))
    /\ WF_mainVars(\E dead \in SUBSET Conns : AtomicInfo(c, dead))

FairSpec == Init /\ [][AtomicNext]_vars /\ Fairness

\* ------------------------------------- the system, with waiting for the lock
\* The same handlers with `with self.lock:` in two steps: the thread reaches
\* the statement and blocks in acquire(), then gets the lock once it is
\* free.  The blocks themselves are the steps LoginCS .. DisconnectCS above.

\* a line whose handling runs under the lock (server.py 79, 91, 94, 123,
\* 140): the thread calls acquire()
Ask(c, h) ==
  /\ Readable(c)
  /\ h.act = "lock"
  /\ pc' = [pc EXCEPT ![c] = "wait"]
  /\ job' = [job EXCEPT ![c] = h.job]
  /\ ev' = NoEv
  /\ UNCHANGED <<username, peer, clients, lock>>

\* finally, logged in: disconnect_user(username) calls acquire()
\* (server.py 107-108, 134)
AskTeardown(c) ==
  /\ pc[c] = "finally"
  /\ username[c] # None
  /\ pc' = [pc EXCEPT ![c] = "wait"]
  /\ job' = [job EXCEPT ![c] = DiscJob(c)]
  /\ ev' = NoEv
  /\ UNCHANGED <<username, peer, clients, lock>>

\* self.broadcast(f"INFO {username} disconnected") calls acquire()
\* (server.py 137, 140)
AskInfo(c) ==
  /\ pc[c] = "info"
  /\ pc' = [pc EXCEPT ![c] = "wait"]
  /\ job' = [job EXCEPT ![c] = InfoJob(c)]
  /\ ev' = NoEv
  /\ UNCHANGED <<username, peer, clients, lock>>

\* threading.Lock.acquire() returns: the lock was free and is now held by
\* this thread.  The lock is not reentrant: a thread that holds it and
\* calls acquire() again waits like any other.
Acquire(c) ==
  /\ pc[c] = "wait"
  /\ lock = 0
  /\ lock' = c
  /\ pc' = [pc EXCEPT ![c] = "cs"]
  /\ ev' = NoEv
  /\ UNCHANGED <<username, job, peer, clients>>

\* the block a thread runs while it holds the lock; its sendall calls
\* return or raise
Block(c) ==
  \/ \E ok \in BOOLEAN : LoginCS(c, ok)
  \/ \E ok \in BOOLEAN : WhoCS(c, ok)
  \/ \E ok \in BOOLEAN : DmDeliver(c, ok)
  \/ \E ok \in BOOLEAN : DmNotFound(c, ok)
  \/ \E dead \in SUBSET Conns : Broadcast(c, dead)
  \/ DisconnectCS(c)

\* the lines clients send in the runs checked for the lock: one for each
\* block that takes it (LOGIN, MSG, WHO, DM), and one that is skipped;
\* teardown takes it twice
LockLines ==
  { <<"L", "O", "G", "I", "N", " ", "a">>,
    <<"M", "S", "G", " ", "h", "i">>,
    <<"w", "h", "o">>,
    <<"D", "M", " ", "a", " ", "h", "i">>,
    <<"M", "S", "G">> }

\* what they make a handler logged in as u do
LockParsed == [u \in Usernames |-> Outcomes(u, LockLines)]

\* NumConns connections have been accepted and welcomed; each is served by
\* one handler thread until that thread ends
LockInit ==
  /\ pc = [c \in Conns |-> "loop"]
  /\ username = [c \in Conns |-> None]
  /\ job = [c \in Conns |-> NoJob]
  /\ peer = [c \in Conns |-> "open"]
  /\ clients = <<>>
  /\ lock = 0
  /\ ev = NoEv
  /\ walk = [k \in Callers |-> NoCall]
  /\ got = [c \in Conns |-> <<>>]
  /\ framer = NoStream

LockNext ==
  /\ UNCHANGED <<walkVars, framer>>
  /\ \E c \in Conns :
       \/ PeerGone(c)
       \/ \E h \in LockParsed[username[c]] : RecvIgnored(c, h)
       \/ \E h \in LockParsed[username[c]], ok \in BOOLEAN :
            RecvReplied(c, h, ok)
       \/ \E h \in LockParsed[username[c]] : Ask(c, h)
       \/ RecvEOF(c)
       \/ Close(c)
       \/ AskTeardown(c)
       \/ AskInfo(c)
       \/ Acquire(c)
       \/ Block(c)

\* Every sendall completes, so a thread that holds the lock finishes its
\* block; and a thread blocked in acquire() is not passed over for ever
\* while the lock keeps being released.
LockFairness ==
  /\ WF_mainVars(\E c \in Conns : Block(c))
  /\ \A c \in Conns : SF_mainVars(Acquire(c))

LockSpec == LockInit /\ [][LockNext]_vars /\ LockFairness

\* ------------------------------- the system, one sendall of broadcast a step
\* broadcast(message, exclude_user) (server.py 139-151) followed statement
\* by statement, for threads that call it while the connections of Conns
\* are logged in and only receive.  The callers are handler threads of
\* further connections: in disconnect_user after their own entry is gone
\* (INFO, no exclusion), or handling MSG (the name excluded is the
\* caller's).
\* the names a LOGIN can register (server.py 74-77)
Names == {u \in Usernames : ValidUsername(u)}

\* who is logged in under which name: as many connections as there are
\* names for, no name twice
Logins ==
  {f \in [Conns -> Names \cup {None}] :
     /\ \A c, d \in Conns : (c # d /\ f[c] # None) => f[c] # f[d]
     /\ \A c \in Conns : f[c] = None => \A d \in 1..(c - 1) : f[d] # None
     /\ \/ \A c \in Conns : f[c] # None
        \/ \A u \in Names : \E c \in Conns : f[c] = u}

\* the registries those logins leave, in any order of insertion
RegistriesOf(f) ==
  {reg \in [1..Cardinality({c \in Conns : f[c] # None})
              -> {[user |-> f[c], sock |-> c] : c \in {d \in Conns : f[d] # None}}] :
     \A i, j \in DOMAIN reg : i # j => reg[i] # reg[j]}

WalkInit ==
  /\ pc = [c \in Conns |-> "loop"]
  /\ username \in Logins
  /\ job = [c \in Conns |-> NoJob]
  /\ peer = [c \in Conns |-> "open"]
  /\ clients \in RegistriesOf(username)
  /\ lock = 0
  /\ ev = NoEv
  /\ walk = [k \in Callers |-> NoCall]
  /\ got = [c \in Conns |-> <<>>]
  /\ framer = NoStream

\* the exclude_user of the calls the handlers make: None for INFO
\* (server.py 137), the caller's own name for MSG (server.py 92).  The
\* message of a call is one and the same line for all its recipients; it
\* is named by the calling thread.
Excludes == {None} \cup Names

\* what self.lock holds while caller k is inside `with self.lock:`
Holder(k) == NumConns + k

\* Enter without waiting for the lock
EnterUnlocked(k, x) ==
  /\ walk[k].at = "idle"
  /\ walk' = [walk EXCEPT ![k] = [at |-> "for", exclude |-> x, i |-> 1,
                                  dead |-> <<>>]]
  /\ UNCHANGED <<pc, username, job, peer, clients, lock, ev, got, framer>>

\* thread k calls broadcast(message, x) and gets past `with self.lock:`
\* (server.py 140-141)
Enter(k, x) ==
  /\ walk[k].at = "idle"
  /\ lock = 0
  /\ lock' = Holder(k)
  /\ walk' = [walk EXCEPT ![k] = [at |-> "for", exclude |-> x, i |-> 1,
                                  dead |-> <<>>]]
  /\ UNCHANGED <<pc, username, job, peer, clients, ev, got, framer>>

\* one turn of `for user, socket in self.clients.items()` (server.py
\* 142-147): the entry is skipped, written to, or its sendall raises
Send(k, ok) ==
  /\ walk[k].at = "for"
  /\ walk[k].i <= Len(clients)
  /\ LET e == clients[walk[k].i] IN
       IF e.user = walk[k].exclude
       THEN /\ ok
            /\ walk' = [walk EXCEPT ![k].i = @ + 1]
            /\ got' = got
       ELSE /\ ok \in WriteOutcomes(e.sock)
            /\ walk' = [walk EXCEPT ![k].i = @ + 1,
                                    ![k].dead = IF ok THEN @
                                                ELSE Append(@, e.user)]
            /\ got' = IF ok THEN [got EXCEPT ![e.sock] = Append(@, k)]
                      ELSE got
  /\ UNCHANGED <<pc, username, job, peer, clients, lock, ev, framer>>

\* the loop is over: `for user in dead_clients: del self.clients[user]`,
\* and `with` releases the lock (server.py 150-151)
Cleanup(k) ==
  /\ walk[k].at = "for"
  /\ walk[k].i > Len(clients)
  /\ clients' = SelectSeq(clients, LAMBDA e : e.user \notin RangeOf(walk[k].dead))
  /\ lock' = 0
  /\ walk' = [walk EXCEPT ![k] = [NoCall EXCEPT !.at = "done"]]
  /\ UNCHANGED <<pc, username, job, peer, ev, got, framer>>

WalkNext ==
  \/ \E k \in Callers, x \in Excludes : Enter(k, x)
  \/ \E k \in Callers, ok \in BOOLEAN : Send(k, ok)
  \/ \E k \in Callers : Cleanup(k)
  \/ \E c \in Socks(clients) :
       PeerGone(c) /\ UNCHANGED <<walkVars, framer>>

WalkSpec == WalkInit /\ [][WalkNext]_vars

\* ------------------------------------ the system, one connection's bytes
\* The read loop of handle_client (server.py 44-62) for one connection,
\* from the bytes on the wire to the commands handed to the parser.  A byte
\* is a string naming it: "a" and "\n" are ASCII, "C3" "A9" is the UTF-8
\* encoding of one character (written "U+E9" once decoded).
Lead == "C3"
Cont == "A9"
Bytes == {"a", "\n", Lead, Cont}

RECURSIVE SeqsUpTo(_, _)
SeqsUpTo(S, n) ==
  IF n = 0 THEN {<<>>}
  ELSE SeqsUpTo(S, n - 1)
         \cup {Append(q, x) : q \in {r \in SeqsUpTo(S, n - 1) : Len(r) = n - 1},
                               x \in S}

\* what a client may send
Streams == SeqsUpTo(Bytes, MaxStream)

\* bytes.decode('utf-8') succeeds: every lead byte is followed by its
\* continuation byte and no continuation byte stands alone
Decodable(d) ==
  \A i \in 1..Len(d) :
    /\ d[i] = Lead => (i < Len(d) /\ d[i + 1] = Cont)
    /\ d[i] = Cont => (i > 1 /\ d[i - 1] = Lead)

\* bytes.decode('utf-8') of decodable bytes
RECURSIVE Decode(_)
Decode(d) ==
  IF d = <<>> THEN <<>>
  ELSE IF Head(d) = Lead THEN <<"U+E9">> \o Decode(Tail(Tail(d)))
  ELSE <<Head(d)>> \o Decode(Tail(d))

\* index of the first "\n" in text, 0 when there is none
FirstNewline(text) ==
  IF \E i \in 1..Len(text) : text[i] = "\n"
  THEN CHOOSE i \in 1..Len(text) :
         text[i] = "\n" /\ \A j \in 1..(i - 1) : text[j] # "\n"
  ELSE 0

\* `while '\n' in buffer:` (server.py 58-62): the commands split off, blank
\* ones skipped, and what stays in the buffer
RECURSIVE Frame(_)
Frame(text) ==
  IF FirstNewline(text) = 0 THEN [framed |-> <<>>, buffer |-> text]
  ELSE LET command == Strip(SubSeq(text, 1, FirstNewline(text) - 1))
           after == Frame(SubSeq(text, FirstNewline(text) + 1, Len(text)))
       IN [framed |-> (IF command = <<>> THEN <<>> ELSE <<command>>)
                        \o after.framed,
           buffer |-> after.buffer]

\* where `except UnicodeDecodeError: continue` takes the handler, had it
\* ended the connection instead
DecodeErrorEnds == "closed"

\* where `except UnicodeDecodeError: continue` takes the handler
DecodeErrorGoes == "recv"

FrameInit ==
  /\ pc = [c \in Conns |-> IF c = 1 THEN "loop" ELSE "free"]
  /\ username = [c \in Conns |-> None]
  /\ job = [c \in Conns |-> NoJob]
  /\ peer = [c \in Conns |-> IF c = 1 THEN "open" ELSE "gone"]
  /\ clients = <<>>
  /\ lock = 0
  /\ ev = NoEv
  /\ walk = [k \in Callers |-> NoCall]
  /\ got = [c \in Conns |-> <<>>]
  /\ \E bytes \in Streams : framer = Reading(bytes)

\* data = client_socket.recv(1024) returns the next n bytes, which decode:
\* they are appended to the buffer and the complete lines are split off
\* (server.py 49, 54, 58-62)
RecvText(n) ==
  /\ framer.at = "recv"
  /\ n \in 1..Len(framer.rest)
  /\ Decodable(SubSeq(framer.rest, 1, n))
  /\ LET data == SubSeq(framer.rest, 1, n)
         f == Frame(framer.buffer \o Decode(data))
     IN framer' = [framer EXCEPT !.rest = SubSeq(@, n + 1, Len(@)),
                                 !.data = data,
                                 !.buffer = f.buffer,
                                 !.framed = @ \o f.framed]
  /\ UNCHANGED <<mainVars, walkVars>>

\* ... which do not decode: the chunk is skipped (server.py 53-56)
RecvUndecodable(n) ==
  /\ framer.at = "recv"
  /\ n \in 1..Len(framer.rest)
  /\ ~Decodable(SubSeq(framer.rest, 1, n))
  /\ framer' = [framer EXCEPT !.rest = SubSeq(@, n + 1, Len(@)),
                              !.data = SubSeq(framer.rest, 1, n),
                              !.at = DecodeErrorGoes]
  /\ UNCHANGED <<mainVars, walkVars>>

\* recv() returns b"" once the client has sent everything and closed
\* (server.py 50-51)
RecvEnd ==
  /\ framer.at = "recv"
  /\ framer.rest = <<>>
  /\ framer' = [framer EXCEPT !.at = "closed", !.data = <<>>]
  /\ UNCHANGED <<mainVars, walkVars>>

FrameNext ==
  \/ \E n \in 1..MaxStream : RecvText(n)
  \/ \E n \in 1..MaxStream : RecvUndecodable(n)
  \/ RecvEnd

FrameSpec == FrameInit /\ [][FrameNext]_vars

\* ------------------------------------------------------------ vocabulary
Live(c) == pc[c] # "free"

\* the handler is running and its client is still connected
Active(c) == pc[c] \in {"loop", "cs"} /\ peer[c] = "open"

\* connection c does in this step what some framed line parses to; the
\* step is then c's own: it is recorded as c's, or c holds the lock after it
Does(c, h) ==
  /\ Readable(c)
  /\ ev'.conn = c \/ lock' = c
  /\ \/ RecvIgnored(c, h)
     \/ \E ok \in BOOLEAN : RecvReplied(c, h, ok)
     \/ RecvLocked(c, h)

\* connection c handles the framed line `line` in this step
Handles(c, line) == Does(c, Handled[username[c], line])

HasSpace(n) == \E i \in 1..Len(n) : n[i] = " "

\* the names listed by a reply "USERS n1, n2, ..."
RECURSIVE SplitNames(_)
SplitNames(s) ==
  IF s = <<>> THEN {}
  ELSE IF \E i \in 1..(Len(s) - 1) : s[i] = "," /\ s[i + 1] = " "
  THEN LET i == CHOOSE k \in 1..(Len(s) - 1) :
                  /\ s[k] = "," /\ s[k + 1] = " "
                  /\ \A j \in 1..(k - 1) : ~(s[j] = "," /\ s[j + 1] = " ")
       IN {SubSeq(s, 1, i - 1)} \cup SplitNames(SubSeq(s, i + 2, Len(s)))
  ELSE {s}

NamesOf(reply) == SplitNames(SubSeq(reply, Len(sUSERS) + 2, Len(reply)))

\* ---------------------------------------------------------------- claim C1
\* C1: at most one running handler whose client is still connected is
\* logged in under any one username, and a LOGIN u handled while another
\* such connection is logged in as u is answered ERR username-taken and
\* leaves the registry as it was.
C1_UsernameUnique ==
  /\ \A c, d \in Conns :
       (c # d /\ Active(c) /\ Active(d) /\ username[c] # None)
         => username[c] # username[d]
  /\ (ev.kind = "login"
      /\ \E d \in Conns \ {ev.conn} : Active(d) /\ username[d] = ev.a)
       => (ev.reply = sErrTaken /\ clients = ev.pre)

\* ---------------------------------------------------------------- claim C2
\* C2: a MSG with text t from a connection logged in as s writes exactly
\* the one line "MSG s t" to every other registered connection whose write
\* succeeds, and nothing to the sender.
C2_BroadcastDelivery ==
  ev.kind = "msg" =>
    /\ \E line \in Lines :
         /\ Cmd(line) = sMSG /\ Arg(line) # <<>>
         /\ ev.a = sMSG \o <<" ">> \o ev.user \o <<" ">> \o Arg(line)
    /\ \A d \in Socks(ev.pre) \ {ev.conn} :
         d \notin ev.failed => ev.wrote[d] = <<ev.a>>
    /\ ev.wrote[ev.conn] = <<>>

\* ---------------------------------------------------------------- claim C3
\* connection c, logged in as u, has lost its client and has not yet
\* announced it
Closing(c, u) ==
  /\ username[c] = u /\ u # None
  /\ peer[c] = "gone"
  /\ pc[c] \in {"loop", "finally"}

\* c's teardown has just broadcast "INFO u disconnected", and every
\* connection still registered has been written exactly that line
Announced(c, u) ==
  /\ ev.kind = "info" /\ ev.conn = c /\ ev.user = u /\ u # None
  /\ \A d \in Socks(clients) :
       ev.wrote[d] = <<sINFO \o <<" ">> \o u \o <<" ">> \o sDisconnected>>

\* a WHO reply lists a name only for a connection that logged in under it
\* and whose teardown has not yet removed it
WhoOmitsTornDown ==
  ev.kind = "who" =>
    \A u \in NamesOf(ev.reply) :
      \E d \in Conns :
        /\ username[d] = u
        /\ pc[d] \in {"loop", "cs", "finally"}
        /\ pc[d] = "cs" => job[d].op # "info"

\* C3: under fair scheduling, once the client of a logged-in connection is
\* gone, every connection that stays registered is eventually written
\* "INFO u disconnected"; and a WHO reply names u only if a connection that
\* has not been torn down is logged in as u.
C3_DisconnectNotified ==
  /\ \A c \in Conns :
       (\E u \in Usernames : Closing(c, u))
         ~> (\E u \in Usernames : Announced(c, u))
  /\ []WhoOmitsTornDown

\* a teardown has announced u to another connection, which stays registered
C3_Witness ==
  /\ ev.kind = "info" /\ ev.user # None
  /\ \E d \in Socks(clients) : ev.wrote[d] = <<InfoLine(ev.user)>>

\* ---------------------------------------------------------------- claim C4
\* C4: the names of a WHO reply are exactly the usernames of the
\* connections logged in at that instant: every logged-in connection whose
\* handler runs and whose client is connected is named (the requester
\* included), and every name belongs to a connection not yet closed.
C4_WhoComplete ==
  ev.kind = "who" =>
    /\ {username[d] : d \in {x \in Conns : Active(x) /\ username[x] # None}}
         \subseteq NamesOf(ev.reply)
    /\ NamesOf(ev.reply)
         \subseteq {username[d] : d \in {x \in Conns : Live(x)}}

\* ---------------------------------------------------------------- claim C5
\* the DM step: target registered, one write of "DM s m" to the target's
\* socket and to no other, no reply, registry unchanged, handler goes on
DmDelivered ==
  /\ \/ ev.wrote[SockOf(ev.pre, ev.a)] =
          <<sDM \o <<" ">> \o ev.user \o <<" ">> \o ev.b>>
     \/ /\ SockOf(ev.pre, ev.a) \in ev.failed
        /\ ev.wrote[SockOf(ev.pre, ev.a)] = <<>>
  /\ \A d \in Conns \ {SockOf(ev.pre, ev.a)} :
       ev.wrote[d] = <<>> /\ d \notin ev.failed
  /\ ev.reply = <<>>
  /\ clients = ev.pre
  /\ pc[ev.conn] = "loop"

\* C5 as stated: DM t m with t registered writes "DM s m" once to t's
\* socket and to no other; the sender is written no line, also when the
\* write to t fails; the registry is unchanged.
C5_DmDelivery ==
  (ev.kind = "dm" /\ Has(ev.pre, ev.a)) =>
    (DmDelivered /\ ev.wrote[ev.conn] = <<>>)

\* C5 amended: as above, but the sender is written no line only when the
\* registry maps t to another connection than the sender's; a DM to its own
\* name is delivered to the sender like any other.
C5_DmDeliveryAmended ==
  (ev.kind = "dm" /\ Has(ev.pre, ev.a)) =>
    /\ DmDelivered
    /\ SockOf(ev.pre, ev.a) # ev.conn => ev.wrote[ev.conn] = <<>>

\* a DM has been written to another connection
C5_Witness ==
  /\ ev.kind = "dm" /\ Has(ev.pre, ev.a)
  /\ SockOf(ev.pre, ev.a) # ev.conn
  /\ ev.wrote[SockOf(ev.pre, ev.a)] # <<>>

\* ---------------------------------------------------------------- claim C6
\* C6: the removal in teardown leaves u out of the registry, only a
\* successful LOGIN u puts u back, and a LOGIN u that finds u absent is
\* answered OK and registers u for that connection.
C6_UsernameReleased ==
  /\ [](ev.kind = "disc" => ~Has(clients, ev.a))
  /\ [][\A u \in Usernames :
          (~Has(clients, u) /\ Has(clients', u))
            => (ev'.kind = "login" /\ ev'.a = u /\ ev'.reply = sOK)]_vars
  /\ []((ev.kind = "login" /\ ~Has(ev.pre, ev.a))
          => /\ ev.reply = sOK
             /\ Has(clients, ev.a)
             /\ SockOf(clients, ev.a) = ev.conn
             /\ username[ev.conn] = ev.a)

\* the teardown of a connection logged in as u has removed u from the
\* registry, and a fresh connection has just logged in as u
C6_Witness ==
  /\ ev.kind = "login" /\ ev.reply = sOK /\ ev.ok
  /\ SockOf(clients, ev.a) = ev.conn
  /\ \E d \in Conns \ {ev.conn} : pc[d] = "info" /\ username[d] = ev.a

\* ---------------------------------------------------------------- claim C7
\* the LOGIN lines whose argument is empty, or is empty or holds a space
\* once trimmed
InvalidLoginLines ==
  {line \in Lines :
     /\ Cmd(line) = sLOGIN
     /\ \/ Arg(line) = <<>>
        \/ Strip(Arg(line)) = <<>>
        \/ HasSpace(Strip(Arg(line)))}

\* connection c, not logged in, handles such a line in this step
InvalidLogin(c, line) ==
  /\ username[c] = None
  /\ line \in InvalidLoginLines
  /\ Handles(c, line)

\* C7 as stated: a LOGIN with an empty argument, or whose trimmed argument
\* is empty or contains a space, is answered ERR invalid-username, leaves
\* the registry unchanged and the connection not logged in, and the
\* connection stays open.
C7_InvalidLogin ==
  [][\A c \in Conns : \A line \in InvalidLoginLines :
       InvalidLogin(c, line)
         => /\ ev'.conn = c /\ ev'.reply = sErrInvalid
            /\ clients' = clients
            /\ username'[c] = None
            /\ pc'[c] = "loop"]_vars

\* C7 amended: ... and the connection stays open when the reply can be
\* written; when that write fails (the client is gone) the handler leaves
\* its loop and closes the connection.
C7_InvalidLoginAmended ==
  [][\A c \in Conns : \A line \in InvalidLoginLines :
       InvalidLogin(c, line)
         => /\ ev'.conn = c /\ ev'.reply = sErrInvalid
            /\ ev'.wrote[c] = IF ev'.ok THEN <<sErrInvalid>> ELSE <<>>
            /\ clients' = clients
            /\ username'[c] = None
            /\ pc'[c] = IF ev'.ok THEN "loop" ELSE "finally"]_vars

\* an invalid LOGIN has been answered and the connection reads on
C7_Witness ==
  /\ ev.kind = "login-invalid" /\ ev.ok
  /\ ev.wrote[ev.conn] = <<sErrInvalid>>
  /\ pc[ev.conn] = "loop" /\ username[ev.conn] = None

\* ---------------------------------------------------------------- claim C8
\* the non-blank lines whose verb, in any letter case, is not LOGIN
NonLoginLines ==
  {line \in Lines :
     /\ Strip(line) # <<>>
     /\ Upper(Split1(Strip(line))[1]) # sLOGIN}

\* what those lines parse to on a connection that is not logged in
NonLoginParsed == Outcomes(None, NonLoginLines)

\* C8: before login, every non-blank line whose verb (in any letter case)
\* is not LOGIN is answered ERR login-required; nothing is written to any
\* other connection, and the registry and every connection's username
\* stay as they were.
C8_LoginRequired ==
  [][\A c \in Conns : \A h \in NonLoginParsed :
       (username[c] = None /\ Does(c, h))
         => /\ ev'.conn = c /\ ev'.reply = sErrLogin
            /\ \A d \in Conns \ {c} : ev'.wrote[d] = <<>>
            /\ ev'.failed \subseteq {c}
            /\ clients' = clients
            /\ username' = username]_vars

\* a command sent before login has been refused while others are registered
C8_Witness ==
  /\ ev.kind = "login-required" /\ ev.ok
  /\ ev.wrote[ev.conn] = <<sErrLogin>>
  /\ username[ev.conn] = None
  /\ clients # <<>>

\* ---------------------------------------------------------------- claim C9
\* the step handled a DM whose target was not in the registry
DmAbsent == ev'.kind = "dm" /\ ~Has(clients, ev'.a)

\* C9 as stated: DM t m with t not registered: the sender receives ERR
\* user-not-found, no other connection is written a line, and the registry
\* and every connection's state stay as they were.
C9_DmNotFound ==
  [][DmAbsent
       => /\ ev'.wrote[ev'.conn] = <<sErrNotFound>>
          /\ \A d \in Conns \ {ev'.conn} : ev'.wrote[d] = <<>>
          /\ clients' = clients
          /\ username' = username
          /\ \A d \in Conns :
               pc'[d] = IF d = ev'.conn THEN "loop" ELSE pc[d]]_vars

\* C9 amended: ERR user-not-found is the reply sent; the sender receives it
\* and its handler reads on when the write succeeds; when the write fails
\* (the sender's client is gone) nothing is received and the sender's
\* handler leaves its loop for teardown.  Either way no other connection
\* is written a line and the registry and all usernames are unchanged by
\* that command.
C9_DmNotFoundAmended ==
  [][DmAbsent
       => /\ ev'.reply = sErrNotFound
          /\ ev'.wrote[ev'.conn] = IF ev'.ok THEN <<sErrNotFound>> ELSE <<>>
          /\ \A d \in Conns \ {ev'.conn} : ev'.wrote[d] = <<>>
          /\ clients' = clients
          /\ username' = username
          /\ \A d \in Conns :
               pc'[d] = IF d = ev'.conn
                        THEN (IF ev'.ok THEN "loop" ELSE "finally")
                        ELSE pc[d]]_vars

\* a DM to an absent name has been refused while another connection is
\* registered
C9_Witness ==
  /\ ev.kind = "dm" /\ ~Has(ev.pre, ev.a)
  /\ ev.wrote[ev.conn] = <<sErrNotFound>>
  /\ Socks(clients) \ {ev.conn} # {}

\* --------------------------------------------------------------- claim C10
\* C10 (at the removal step of a teardown): the entries that
\* disconnect_user removes for a closing connection all hold that
\* connection's own socket.
C10_TeardownIsolated ==
  ev.kind = "disc" =>
    \A e \in RangeOf(ev.pre) \ RangeOf(clients) : e.sock = ev.conn

\* --------------------------------------------------------------- claim C11
\* the DM lines whose argument has no space, or has nothing before or
\* nothing after its first space
DmMalformedLines ==
  {line \in Lines :
     /\ Cmd(line) = sDM
     /\ \/ FirstSpace(Arg(line)) = 0
        \/ SubSeq(Arg(line), 1, FirstSpace(Arg(line)) - 1) = <<>>
        \/ SubSeq(Arg(line), FirstSpace(Arg(line)) + 1, Len(Arg(line))) = <<>>}

\* C11: a logged-in connection that handles a DM whose argument does not
\* split on its first space into a non-empty target and a non-empty
\* message is answered ERR usage; the lock is not taken (no registry
\* lookup), no other connection is written a line, and the registry and
\* all usernames stay as they were.
C11_DmUsage ==
  [][\A c \in Conns : \A line \in DmMalformedLines :
       (username[c] # None /\ Handles(c, line))
         => /\ ev'.conn = c /\ ev'.reply = sErrUsage
            /\ \A d \in Conns \ {c} : ev'.wrote[d] = <<>>
            /\ lock' = lock
            /\ clients' = clients
            /\ username' = username]_vars

\* --------------------------------------------------------------- claim C12
\* the lines whose verb, in any letter case, is LOGIN
LoginLines == {line \in Lines : Cmd(line) = sLOGIN}

\* what those lines parse to on a connection logged in as u
LoginParsed == [u \in Usernames |-> Outcomes(u, LoginLines)]

\* C12: the username of a connection changes only from None to a name, by
\* a LOGIN answered OK, and then stays until the handler thread has ended;
\* a LOGIN handled by a logged-in connection is answered ERR
\* unknown-command and leaves the registry and every username as they were.
C12_SingleLogin ==
  [][\A c \in Conns :
       /\ username[c] # None
            => \/ username'[c] = username[c]
               \/ pc'[c] = "free" /\ username'[c] = None
       /\ (username[c] = None /\ username'[c] # None)
            => /\ ev'.kind = "login" /\ ev'.conn = c /\ ev'.reply = sOK
               /\ username'[c] = ev'.a
       /\ username[c] # None
            => \A h \in LoginParsed[username[c]] :
                 Does(c, h)
                   => /\ ev'.conn = c /\ ev'.reply = sErrUnknown
                      /\ clients' = clients
                      /\ username' = username]_vars

\* a logged-in connection has sent LOGIN again and been refused
C12_Witness ==
  /\ ev.kind = "unknown" /\ ev.a = sLOGIN /\ ev.ok
  /\ ev.wrote[ev.conn] = <<sErrUnknown>>
  /\ username[ev.conn] # None /\ pc[ev.conn] = "loop"

\* --------------------------------------------------------------- claim C13
\* the latest step was a broadcast in which some write failed
BroadcastFailed == ev.kind \in {"msg", "info"} /\ ev.failed # {}

\* the entries of the registry before the step that the step removed
Evicted == RangeOf(ev.pre) \ RangeOf(clients)

Got(c, k) == \E i \in 1..Len(got[c]) : got[c][i] = k

\* ... and before thread l's broadcast
GotBefore(c, k, l) ==
  \E i, j \in 1..Len(got[c]) : i < j /\ got[c][i] = k /\ got[c][j] = l

\* C14: no two threads are inside the loop of broadcast at the same time,
\* and no two connections have been written the broadcasts of two threads
\* in opposite orders.
C14_BroadcastOrder ==
  /\ \A k, l \in Callers :
       (k # l /\ walk[k].at = "for") => walk[l].at # "for"
  /\ \A c, d \in Conns : \A k, l \in Callers :
       (c # d /\ k # l /\ GotBefore(c, k, l))
         => ~GotBefore(d, l, k)

\* two connections have both been written the broadcasts of two threads
C14_Witness ==
  \E c, d \in Conns : \E k, l \in Callers :
    /\ c # d /\ k # l
    /\ Got(c, k) /\ Got(c, l) /\ Got(d, k) /\ Got(d, l)

\* --------------------------------------------------------------- claim C15
\* the steps that read or write the registry
RegistryKinds == {"login", "who", "dm", "msg", "info", "disc"}

\* at most one thread is inside `with self.lock:`, and it is the holder
OneHolder ==
  \A c \in Conns : pc[c] = "cs" <=> lock = c

\* a WHO reply and the recipients of a broadcast are those of the registry
\* as it was when the step began
OneInstant ==
  /\ ev.kind = "who" => NamesOf(ev.reply) = KeySet(ev.pre)
  /\ ev.kind \in {"msg", "info"}
       => {d \in Conns : ev.wrote[d] # <<>>} \cup ev.failed
            = {e.sock : e \in {x \in RangeOf(ev.pre) : x.user # ev.b}}

\* a step that reads or writes the registry is taken by the holder of the
\* lock from inside its `with` block, and the registry changes in no other
UnderLock ==
  /\ ev'.kind \in RegistryKinds
       => (lock = ev'.conn /\ pc[ev'.conn] = "cs")
  /\ clients' # clients
       => (ev'.kind \in RegistryKinds /\ lock = ev'.conn)

\* C15: every step that reads or writes the registry is taken by the thread
\* that holds the lock, at most one thread holds it, the registry changes
\* only in such steps, and so a WHO reply and the recipients of a broadcast
\* are those of the registry at the one instant of the step.
C15_RegistryExclusive ==
  /\ []OneHolder
  /\ []OneInstant
  /\ [][UnderLock]_vars

\* a WHO holds the lock while the teardown of another connection waits to
\* remove its entry
C15_Witness ==
  \E c, d \in Conns :
    /\ pc[c] = "cs" /\ lock = c /\ job[c].op = "who"
    /\ pc[d] = "finally" /\ Has(clients, username[d])

\* --------------------------------------------------------------- claim C16
\* what the handler has framed and buffered when the bytes arrive in one
\* chunk
OneChunk(bytes) ==
  IF bytes = <<>> \/ ~Decodable(bytes) THEN [framed |-> <<>>, buffer |-> <<>>]
  ELSE Frame(Decode(bytes))

\* C16: whatever the chunks in which a stream has arrived, once it has
\* arrived in full the commands handed to the parser, and the partial line
\* left in the buffer, are those of the stream arriving as one chunk.
C16_ChunkIndependent ==
  framer.rest = <<>> =>
    /\ framer.framed = OneChunk(framer.stream).framed
    /\ framer.buffer = OneChunk(framer.stream).buffer

\* --------------------------------------------------------------- claim C17
\* the step received a chunk that does not decode
DroppedChunk ==
  /\ framer'.rest # framer.rest
  /\ ~Decodable(framer'.data)

\* C17: a chunk that does not decode leaves the buffer, the commands
\* framed so far, the connection's login, the registry and everything
\* written as they were, and the handler is back in recv().
C17_DecodeErrorSkipped ==
  [][DroppedChunk
       => /\ framer'.buffer = framer.buffer
          /\ framer'.framed = framer.framed
          /\ framer'.at = "recv"
          /\ UNCHANGED <<pc, username, clients, ev>>]_vars

\* a chunk has been dropped while a partial line was buffered, and a later
\* chunk has completed the line
C17_Witness ==
  /\ framer.at = "recv"
  /\ Len(framer.stream) = 4 /\ framer.rest = <<>>
  /\ ~Decodable(SubSeq(framer.stream, 2, 2))
  /\ framer.framed = <<SubSeq(framer.stream, 1, 1) \o SubSeq(framer.stream, 3, 3)>>

\* C18: no connection receives "INFO u disconnected" while it is itself the
\* connection registered under u: the INFO broadcast of a teardown of u
\* writes to no registry entry whose name is u.
C18_InfoNotToSelf ==
  ev.kind = "info" =>
    \A i \in 1..Len(ev.pre) :
      ev.pre[i].user = ev.user => ev.wrote[ev.pre[i].sock] = <<>>

\* C19: no stale registry entries.  Every registry entry u -> sink belongs
\* to a connection whose handler is logged in as u and has not yet removed
\* itself in its teardown; once every handler has finished, the registry is
\* empty.
Removed(c) == pc[c] = "info" \/ (pc[c] = "cs" /\ job[c].op = "info")

AllFinished == \A c \in Conns : ~Live(c)

C19_NoStaleEntries ==
  /\ \A i \in 1..Len(clients) :
       /\ clients[i].sock \in Conns
       /\ Live(clients[i].sock)
       /\ username[clients[i].sock] = clients[i].user
       /\ ~Removed(clients[i].sock)
  /\ AllFinished => clients = <<>>

\* the last handler that was logged in has finished its teardown, INFO
\* broadcast included, and nothing is left in the registry
C19_Witness ==
  /\ AllFinished
  /\ ev.kind = "info"
  /\ clients = <<>>

\* C20: deadlock freedom of the registry lock.  A thread that calls
\* acquire() never holds the lock already, the lock is held only by a thread
\* inside one of the blocks and is released on every way out of a block,
\* a failed write included; so every thread waiting for the lock eventually
\* holds it.
Waiting(c) == pc[c] = "wait"

NeverNested == \A c \in Conns : Waiting(c) => lock # c

HeldInBlock == \A c \in Conns : lock = c <=> pc[c] = "cs"

Released ==
  \A c \in Conns : lock = c /\ pc'[c] # "cs" => lock' = 0

Granted == \A c \in Conns : Waiting(c) ~> lock = c

====
